---- MODULE Spec2Model ----
(***************************************************************************)
(* Model of the remote-image prefetcher (src/src/imageprefetcher.c): a     *)
(* ring of image slots written by one background thread                    *)
(* (image_prefetcher_thread) and navigated by one foreground caller        *)
(* (image_prefetcher_jump_next / _jump_prev / _get_cached / _free).        *)
(*                                                                         *)
(* Every region the code runs under cv_mut is one atomic action; what the  *)
(* code does outside the mutex (the downloader call, image_free of the     *)
(* evicted image, the condvar broadcast, jump_prev's read of its return    *)
(* value) is an action of its own, so the two threads interleave exactly   *)
(* where the code lets them.                                               *)
(*                                                                         *)
(* An image is its identifier 1, 2, 3, ... in the order the downloader     *)
(* returned it; NULL is 0.  pthread_cond_wait is modelled without spurious *)
(* wakeups.                                                                *)
(*                                                                         *)
(* The HTTP image source the worker calls (src/src/imagedownloader.c) is   *)
(* modelled on its own: downloader_init, downloader_get_one and            *)
(* downloader_free, one action each, with what the file system, curl and   *)
(* the decoder do as inputs.  In the prefetcher's specifications the       *)
(* downloader callback is a step of the worker that returns an image or    *)
(* NULL.                                                                   *)
(***************************************************************************)
EXTENDS Integers, Sequences, FiniteSets, TLC

\* Largest cache_size handed to image_prefetcher_start.
MaxCacheSize == 3
\* Largest prefetch_n handed to image_prefetcher_start (before clamping).
MaxPrefetch == 3
\* Number of calls the foreground thread makes before it stops or frees.
MaxCalls == 4
\* Number of calls the failing downloader lets fail.
MaxFails == 1
\* Number of downloader_get_one calls made on one downloader.
MaxFetch == 3
\* Number of write_data calls that deliver one response body.
BodyChunks == 2

\* Size of the buffer downloader_get_one formats the mirror file's name into.
MAX_PATH_LEN == 255

NULL == 0

VARIABLES
    thread,         \* ctx->thread: 0, 1 once pthread_create succeeded, 2 if a failed
                    \* pthread_create left a value there
    image_cache_size,
    prefetch_n,
    image_cache,    \* ctx->image_cache: slot index -> image id, NULL when unallocated
    image_cache_r,
    image_cache_w,
    mutex,          \* cv_mut: "free" or "worker"
    wpc,            \* where image_prefetcher_thread is
    w_i,            \* its loop counter i
    w_img,          \* its local img
    w_old,          \* its local old_img
    cancel_req,     \* pthread_cancel was called on the worker
    produced,       \* number of images the downloader has returned
    failures,       \* number of downloader calls that returned no image
    failed,         \* the flaky downloader's last call returned no image
    released,       \* image id -> number of image_free calls on it
    rpc,            \* where the foreground thread is
    r_idx,          \* next_idx / maybe_prev of the call in progress
    ret,            \* value the last jump_next / jump_prev returned (or will return)
    last_count,     \* value the last foreground get_cached returned
    calls,          \* number of foreground calls made
    aborted,        \* abort() was called
    start_ret,      \* what the last image_prefetcher_start returned ("none" before any)
    clamped,        \* the last start lowered prefetch_n to cache_size
    exposed,        \* image the reader was last given while R has not moved since
    last_next,      \* last non-null result of jump_next
    fwd_ok,         \* K: number of jump_next calls that returned an image
    back_run,       \* J: number of consecutive jump_prev calls that returned an image
    phase,          \* "fwd": only jump_next so far; "back": jump_next* then jump_prev*; "mixed"
    seen,           \* the images jump_next has returned
    dl_ctx,         \* downloader_ctx: "none", "failed" (init returned NULL), "live", "freed"
    www_cache_dir,  \* ctx->www_cache_dir is set
    clean_cache_after_use,
    img_download_cnt,
    mem_buf_sz,     \* ctx->mem_buf_sz, in chunks of a response body
    cache_entries,  \* what the cache directory holds: a set of <<name, kind>>
    cache_reported, \* the entries the last clean_cache printed a diagnostic for
    dir_len,        \* strlen(ctx->www_cache_dir)
    fnames,         \* what each downloader_get_one left in download_fname, in order
    curl_handle,    \* ctx->curl_handle: "none", "live", "cleaned"
    dl_err,         \* what made downloader_init return NULL ("none" if nothing did)
    dl_calls,       \* number of downloader_get_one calls made
    dl_requests,    \* number of curl_easy_perform calls made
    dl_mirror,      \* last downloader_get_one: "none", "ok", "open_failed", "write_failed"
    dl_http,        \* last downloader_get_one: "none", "ok", "fail"
    dl_decode,      \* last downloader_get_one: "none", "ok", "fail"
    dl_ret,         \* last downloader_get_one: "none", "img", "null"
    dl_decoded,     \* last downloader_get_one: chunks handed to image_create
    current,        \* image list: ctx.current
    no_img,         \* image list: ctx.no_img
    can_move,       \* image list: can_move of the jump_next in progress
    scan_ret        \* what image_list_scan returned ("none" before it returns)

ring == <<image_cache_size, prefetch_n, image_cache, image_cache_r, image_cache_w>>
worker == <<wpc, w_i, w_img, w_old, produced, failures, failed, released>>
reader == <<rpc, r_idx, ret, last_count, calls>>
started == <<start_ret, clamped>>
history == <<exposed, last_next, fwd_ok, back_run, phase, seen>>
downloader == <<dl_ctx, www_cache_dir, clean_cache_after_use,
                img_download_cnt, mem_buf_sz, cache_entries, cache_reported,
                dir_len, fnames, curl_handle, dl_err, dl_calls, dl_requests,
                dl_mirror, dl_http, dl_decode, dl_ret, dl_decoded>>
prefetcher == <<thread, ring, mutex, worker, cancel_req, reader, aborted,
                started, history>>
facade == <<current, no_img, can_move, scan_ret>>
\* What the prefetcher's own functions never touch.
outside == <<downloader, facade>>
vars == <<prefetcher, downloader, facade>>
\* The prefetcher's variables other than rpc.
prefetcher_but_rpc ==
    <<thread, ring, mutex, worker, cancel_req, r_idx, ret, last_count, calls,
      aborted, started, history>>

NoCache == [i \in {} |-> NULL]

Min(a, b) == IF a < b THEN a ELSE b

----
\* Pure parts of the code.

\* image_prefetcher_get_cached: the count computed from a snapshot of R and W.
get_cached_underflow(r, w, size) == w - r
get_cached(r, w, size) == IF w >= r THEN w - r ELSE w + size - r

\* The worker's advance of the write pointer.
advance_w_nowrap(w, size) == w + 1
advance_w(w, size) == (w + 1) % size

\* jump_next: next_idx.
next_idx_skip(r, size) == (r + 2) % size
next_idx(r, size) == (r + 1) % size

\* jump_next: the read pointer after the call.
jump_next_r_always(r, w, size) == IF w = r THEN r ELSE next_idx(r, size)
jump_next_r(r, w, size) ==
    IF w = r THEN r
    ELSE IF next_idx(r, size) = w THEN r
    ELSE next_idx(r, size)

\* jump_next: the returned image.
jump_next_ret(cache, r, w, size) ==
    IF w = r THEN NULL
    ELSE IF next_idx(r, size) = w THEN cache[r]
    ELSE cache[next_idx(r, size)]

\* jump_prev: maybe_prev.
maybe_prev(r, size) == IF r = 0 THEN size - 1 ELSE r - 1

\* jump_prev: the early-return test (no history available).
jump_prev_blocked_nowcheck(cache, r, w, size) == cache[maybe_prev(r, size)] = NULL
jump_prev_blocked(cache, r, w, size) ==
    maybe_prev(r, size) = w \/ cache[maybe_prev(r, size)] = NULL

\* image_free(img): a no-op on NULL, else one more release of that image.
image_free_noop(rel, img) == rel
image_free(rel, img) ==
    IF img = NULL THEN rel ELSE [rel EXCEPT ![img] = @ + 1]

\* image_prefetcher_start: the prefetch count kept after the clamp.
effective_prefetch_noclamp(pn, cs) == pn
effective_prefetch(pn, cs) == IF pn > cs THEN cs ELSE pn

\* image_prefetcher_start: the "used before start or started twice" test.
start_guard_cursors_only(t, r, w) == r # 0 \/ w # 0
start_guard(t, r, w) == t # 0 \/ r # 0 \/ w # 0

\* image_prefetcher_free: whether there is a thread to cancel and join.
has_thread_always(t) == TRUE
has_thread(t) == t # 0

\* The worker's old_img: what slot W holds before the store.
old_img_none(cache, w) == NULL
old_img(cache, w) == cache[w]

\* image_prefetcher_free: image_free on every slot.
RECURSIVE free_slots(_, _, _)
free_slots(rel, cache, n) ==
    IF n = 0 THEN rel ELSE free_slots(image_free(rel, cache[n - 1]), cache, n - 1)

----
\* What image_prefetcher_start has yet to set.
Unstarted ==
    /\ thread = 0
    /\ image_cache_size = 0
    /\ prefetch_n = 0
    /\ image_cache = NoCache
    /\ wpc = "none"
    /\ failed = FALSE
    /\ start_ret = "none"
    /\ clamped = FALSE

\* Everything else: cursors at 0, no call in progress, nothing downloaded.
AtRest ==
    /\ image_cache_r = 0
    /\ image_cache_w = 0
    /\ mutex = "free"
    /\ w_i = 0
    /\ w_img = NULL
    /\ w_old = NULL
    /\ cancel_req = FALSE
    /\ produced = 0
    /\ failures = 0
    /\ released = << >>
    /\ rpc = "idle"
    /\ r_idx = 0
    /\ ret = NULL
    /\ last_count = 0
    /\ calls = 0
    /\ aborted = FALSE
    /\ exposed = NULL
    /\ last_next = NULL
    /\ fwd_ok = 0
    /\ back_run = 0
    /\ phase = "fwd"
    /\ seen = {}
    /\ dl_ctx = "none"
    /\ www_cache_dir = FALSE
    /\ clean_cache_after_use = FALSE
    /\ img_download_cnt = 0
    /\ mem_buf_sz = 0
    /\ cache_entries = {}
    /\ cache_reported = {}
    /\ dir_len = 0
    /\ fnames = << >>
    /\ curl_handle = "none"
    /\ dl_err = "none"
    /\ dl_calls = 0
    /\ dl_requests = 0
    /\ dl_mirror = "none"
    /\ dl_http = "none"
    /\ dl_decode = "none"
    /\ dl_ret = "none"
    /\ dl_decoded = 0
    /\ current = NULL
    /\ no_img = NULL
    /\ can_move = FALSE
    /\ scan_ret = "none"

Init == Unstarted /\ AtRest

\* The foreground thread is between two calls on a live prefetcher.
Idle == rpc = "idle" /\ ~aborted

\* The foreground thread may call into a started prefetcher.
CanCall == Idle /\ thread = 1 /\ mutex = "free" /\ calls < MaxCalls

----
\* image_prefetcher_start(ctx, cache_size, prefetch_n) on a prefetcher that
\* passes the "used before start or started twice" test.  outcome is what
\* malloc and pthread_create do; stale is what a failing pthread_create leaves
\* in ctx->thread, which POSIX does not define.
start_fresh(cs, pn, outcome, stale) ==
    /\ aborted' = FALSE
    /\ image_cache_size' = cs
    /\ IF cs = 0 \/ pn = 0
       THEN /\ prefetch_n' = pn
            /\ start_ret' = "false"
            /\ clamped' = FALSE
            /\ UNCHANGED <<thread, image_cache, wpc>>
       ELSE /\ prefetch_n' = effective_prefetch(pn, cs)
            /\ clamped' = (pn > cs)
            /\ CASE outcome = "bad_alloc" ->
                        /\ image_cache' = NoCache
                        /\ start_ret' = "false"
                        /\ UNCHANGED <<thread, wpc>>
                 [] outcome = "thread_fail" ->
                        /\ image_cache' = NoCache
                        /\ start_ret' = "false"
                        /\ thread' = stale
                        /\ UNCHANGED wpc
                 [] OTHER ->
                        /\ image_cache' = [i \in 0 .. cs - 1 |-> NULL]
                        /\ start_ret' = "true"
                        /\ thread' = 1
                        /\ wpc' = "check"

\* image_prefetcher_start.
Start ==
    /\ Idle
    /\ IF start_guard(thread, image_cache_r, image_cache_w)
       THEN \* abort(): the process ends, and the two fields just written
            \* (image_cache_size, prefetch_n) end with it.
            /\ aborted' = TRUE
            /\ UNCHANGED <<thread, image_cache_size, prefetch_n, image_cache,
                           wpc, started>>
       ELSE \E cs \in 0 .. MaxCacheSize, pn \in 0 .. MaxPrefetch,
               outcome \in {"ok", "bad_alloc", "thread_fail"},
               stale \in {0, 2} :
                /\ (outcome = "thread_fail" \/ stale = 0)
                /\ start_fresh(cs, pn, outcome, stale)
    /\ UNCHANGED <<image_cache_r, image_cache_w, mutex, w_i, w_img, w_old,
                   produced, failures, failed, released, cancel_req, reader,
                   history, outside>>

----
\* image_prefetcher_thread.

\* The test of the worker's for loop, i < ctx->prefetch_n.
more_to_prefetch_inclusive(i, n) == i <= n
more_to_prefetch(i, n) == i < n

\* cnt = get_cached(ctx), and the first test of the for loop.
ThreadCheck ==
    /\ wpc = "check" /\ ~aborted /\ mutex = "free"
    /\ w_i' = get_cached(image_cache_r, image_cache_w, image_cache_size)
    /\ wpc' = IF more_to_prefetch(w_i', prefetch_n)
              THEN "download" ELSE "wait_lock"
    /\ UNCHANGED <<thread, ring, mutex, w_img, w_old, produced, failures,
                   failed, released, cancel_req, reader, aborted, started,
                   outside, history>>

\* The downloader callback returns the next image (cancellation is disabled).
ThreadDownload ==
    /\ wpc = "download" /\ ~aborted
    /\ produced' = produced + 1
    /\ w_img' = produced + 1
    /\ released' = Append(released, 0)
    /\ wpc' = "publish"
    /\ UNCHANGED <<thread, ring, mutex, w_i, w_old, failures, failed,
                   cancel_req, reader, aborted, started, outside, history>>

\* The downloader callback returns NULL.
ThreadDownloadFail ==
    /\ wpc = "download" /\ ~aborted
    /\ failures < MaxFails
    /\ w_img' = NULL
    /\ failures' = failures + 1
    /\ wpc' = "publish"
    /\ UNCHANGED <<thread, ring, mutex, w_i, w_old, produced, failed, released,
                   cancel_req, reader, aborted, started, outside, history>>

\* Critical section: store img into slot W, advance W.
ThreadPublish ==
    /\ wpc = "publish" /\ ~aborted /\ mutex = "free"
    /\ w_old' = old_img(image_cache, image_cache_w)
    /\ image_cache' = [image_cache EXCEPT ![image_cache_w] = w_img]
    /\ image_cache_w' = advance_w(image_cache_w, image_cache_size)
    /\ wpc' = "expire"
    /\ UNCHANGED <<thread, image_cache_size, prefetch_n, image_cache_r, mutex,
                   w_i, w_img, produced, failures, failed, released,
                   cancel_req, reader, aborted, started, outside, history>>

\* Release the evicted image, re-enable cancellation, ++i and the loop test.
ThreadExpire ==
    /\ wpc = "expire" /\ ~aborted
    /\ released' = image_free(released, w_old)
    /\ w_i' = w_i + 1
    /\ wpc' = IF more_to_prefetch(w_i', prefetch_n)
              THEN "download" ELSE "wait_lock"
    /\ UNCHANGED <<thread, ring, mutex, w_img, w_old, produced, failures,
                   failed, cancel_req, reader, aborted, started, outside,
                   history>>

\* pthread_mutex_lock before the wait.
ThreadWaitLock ==
    /\ wpc = "wait_lock" /\ ~aborted /\ mutex = "free"
    /\ mutex' = "worker"
    /\ wpc' = "cond_wait"
    /\ UNCHANGED <<thread, ring, w_i, w_img, w_old, produced, failures, failed,
                   released, cancel_req, reader, aborted, started, outside,
                   history>>

\* pthread_cond_wait: a cancellation point; otherwise releases the mutex and blocks.
ThreadCondWait ==
    /\ wpc = "cond_wait" /\ ~aborted
    /\ IF cancel_req
       THEN wpc' = "cancelled" /\ UNCHANGED mutex
       ELSE wpc' = "waiting" /\ mutex' = "free"
    /\ UNCHANGED <<thread, ring, w_i, w_img, w_old, produced, failures, failed,
                   released, cancel_req, reader, aborted, started, outside,
                   history>>

\* The worker's pthread_mutex_unlock after the wait: who holds cv_mut then.
wait_unlock_kept(m) == "worker"
wait_unlock(m) == "free"

\* Woken by a broadcast: re-acquire the mutex, unlock it, loop.
ThreadWake ==
    /\ wpc = "woken" /\ ~aborted /\ mutex = "free"
    /\ mutex' = wait_unlock(mutex)
    /\ wpc' = "check"
    /\ UNCHANGED <<thread, ring, w_i, w_img, w_old, produced, failures,
                   failed, released, cancel_req, reader, aborted, started,
                   outside, history>>

\* Where the worker acts on a pending cancellation request once it is past the
\* entry of pthread_cond_wait: blocked in that wait.  Cancellation is disabled
\* from before the downloader call to after the release of the evicted image,
\* and nothing else the loop calls is a cancellation point.
at_cancellation_point_never(pc) == FALSE
at_cancellation_point_download(pc) == pc \in {"waiting", "download"}
at_cancellation_point(pc) == pc = "waiting"

\* Cancelled while blocked in the wait: the thread re-acquires the mutex and ends.
ThreadCancelled ==
    /\ at_cancellation_point(wpc) /\ ~aborted /\ cancel_req /\ mutex = "free"
    /\ wpc' = "cancelled"
    /\ mutex' = "worker"
    /\ UNCHANGED <<thread, ring, w_i, w_img, w_old, produced, failures, failed,
                   released, cancel_req, reader, aborted, started, outside,
                   history>>

----
\* The foreground thread.

\* pthread_cond_broadcast: wakes the worker if it is blocked in the wait.
broadcast_none(pc) == pc
broadcast(pc) == IF pc = "waiting" THEN "woken" ELSE pc

\* image_prefetcher_jump_next, the region under the mutex.  counted says
\* whether the call is counted in calls, fwd_ok and seen.
jump_next_locked(counted) ==
    /\ CanCall
    /\ r_idx' = next_idx(image_cache_r, image_cache_size)
    /\ ret' = jump_next_ret(image_cache, image_cache_r, image_cache_w,
                            image_cache_size)
    /\ image_cache_r' = jump_next_r(image_cache_r, image_cache_w,
                                    image_cache_size)
    /\ rpc' = "next_bcast"
    /\ calls' = IF counted THEN calls + 1 ELSE calls
    /\ exposed' = IF image_cache_r' # image_cache_r THEN NULL ELSE exposed
    /\ back_run' = 0
    /\ phase' = IF phase = "fwd" THEN "fwd" ELSE "mixed"
    /\ UNCHANGED <<thread, image_cache_size, prefetch_n, image_cache,
                   image_cache_w, mutex, worker, cancel_req, last_count,
                   aborted, started, outside, last_next, fwd_ok, seen>>

JumpNextLocked == jump_next_locked(TRUE)

\* image_prefetcher_jump_next, after the unlock: broadcast and return ret.
jump_next_broadcast(counted) ==
    /\ rpc = "next_bcast" /\ ~aborted
    /\ wpc' = broadcast(wpc)
    /\ rpc' = "idle"
    /\ exposed' = IF ret # NULL THEN ret ELSE exposed
    /\ last_next' = IF ret # NULL THEN ret ELSE last_next
    /\ fwd_ok' = IF ret # NULL /\ counted THEN fwd_ok + 1 ELSE fwd_ok
    /\ seen' = IF ret # NULL /\ counted THEN seen \cup {ret} ELSE seen
    /\ UNCHANGED <<thread, ring, mutex, w_i, w_img, w_old, produced, failures,
                   failed, released, cancel_req, r_idx, ret, last_count, calls,
                   aborted, started, outside, back_run, phase>>

JumpNextBroadcast == jump_next_broadcast(TRUE)

\* image_prefetcher_jump_prev, the region under the mutex; the early return
\* ends the call.
JumpPrevLocked ==
    /\ CanCall
    /\ r_idx' = maybe_prev(image_cache_r, image_cache_size)
    /\ calls' = calls + 1
    /\ phase' = IF phase = "mixed" THEN "mixed" ELSE "back"
    /\ IF jump_prev_blocked(image_cache, image_cache_r, image_cache_w,
                            image_cache_size)
       THEN /\ ret' = NULL
            /\ rpc' = "idle"
            /\ UNCHANGED <<image_cache_r, exposed>>
       ELSE /\ image_cache_r' = r_idx'
            /\ rpc' = "prev_ret"
            /\ exposed' = NULL
            /\ UNCHANGED ret
    /\ UNCHANGED <<thread, image_cache_size, prefetch_n, image_cache,
                   image_cache_w, mutex, worker, cancel_req, last_count,
                   aborted, started, outside, last_next, fwd_ok, back_run,
                   seen>>

\* image_prefetcher_jump_prev, after the unlock: return image_cache[maybe_prev].
JumpPrevReturn ==
    /\ rpc = "prev_ret" /\ ~aborted
    /\ ret' = image_cache[r_idx]
    /\ rpc' = "idle"
    /\ exposed' = ret'
    /\ back_run' = IF ret' # NULL THEN back_run + 1 ELSE back_run
    /\ UNCHANGED <<thread, ring, mutex, worker, cancel_req, r_idx, last_count,
                   calls, aborted, started, outside, last_next, fwd_ok,
                   phase, seen>>

\* image_prefetcher_get_cached called by the foreground thread.
GetCached ==
    /\ CanCall
    /\ last_count' = get_cached(image_cache_r, image_cache_w, image_cache_size)
    /\ calls' = calls + 1
    /\ UNCHANGED <<thread, ring, mutex, worker, cancel_req, rpc, r_idx, ret,
                   aborted, started, outside, history>>

\* The foreground thread makes no further call.
ReaderStop ==
    /\ Idle /\ thread = 1
    /\ rpc' = "stopped"
    /\ UNCHANGED <<thread, ring, mutex, worker, cancel_req, r_idx, ret,
                   last_count, calls, aborted, started, outside, history>>

\* image_prefetcher_free up to pthread_join; with no thread, the whole call.
FreeCancel ==
    /\ Idle
    /\ IF has_thread(thread)
       THEN \* With the value a failed pthread_create left, pthread_cancel and
            \* pthread_join act on no thread, and the loop that follows reads
            \* through the NULL image_cache.
            /\ cancel_req' = (thread = 1)
            /\ rpc' = IF thread = 1 THEN "join" ELSE "segv"
            /\ UNCHANGED <<image_cache, released>>
       ELSE /\ UNCHANGED cancel_req
            /\ IF image_cache_size > 0 /\ image_cache = NoCache
               THEN rpc' = "segv" /\ UNCHANGED <<image_cache, released>>
               ELSE /\ rpc' = "freed"
                    /\ released' = free_slots(released, image_cache,
                                              image_cache_size)
                    /\ image_cache' = NoCache
    /\ UNCHANGED <<thread, image_cache_size, prefetch_n, image_cache_r,
                   image_cache_w, mutex, wpc, w_i, w_img, w_old, produced,
                   failures, failed, r_idx, ret, last_count, calls, aborted,
                   started, outside, history>>

\* pthread_join returns once the worker, at pc, has ended.
joined_at_once(pc) == TRUE
joined(pc) == pc = "cancelled"

\* image_prefetcher_free from the return of pthread_join: release every slot.
FreeJoin ==
    /\ rpc = "join" /\ ~aborted
    /\ joined(wpc)
    /\ released' = free_slots(released, image_cache, image_cache_size)
    /\ image_cache' = NoCache
    /\ rpc' = "freed"
    /\ UNCHANGED <<thread, image_cache_size, prefetch_n, image_cache_r,
                   image_cache_w, mutex, wpc, w_i, w_img, w_old, produced,
                   failures, failed, cancel_req, r_idx, ret, last_count, calls,
                   aborted, started, outside, history>>

----
\* The HTTP image source (src/src/imagedownloader.c).  A response body is
\* BodyChunks calls of write_data; sizes are counted in chunks.  A file name is
\* the sequence of its characters.  The file system does not change behind
\* the program: an entry keeps its kind, and an unlink that fails once fails
\* again.

\* The entries a cache directory may hold before the downloader is created: a
\* regular file, a sub-directory, and a symbolic link to nothing (stat fails).
PreExisting ==
    { << <<"a", ".", "j", "p", "g">>, "file" >>,
      << <<"b">>, "dir" >>,
      << <<"l">>, "dangling" >> }

\* The lengths of the cache directory's path that are tried.
DirLens == {8, 253}

DigitChars == <<"0", "1", "2", "3", "4", "5", "6", "7", "8", "9">>

\* "%ld" of a non-negative number.
RECURSIVE decimal(_)
decimal(n) ==
    IF n < 10 THEN <<DigitChars[n + 1]>>
    ELSE decimal(n \div 10) \o <<DigitChars[(n % 10) + 1]>>

\* "/%ld_img.jpg": the mirror file's name as it follows the directory's path.
mirror_name(n) ==
    <<"/">> \o decimal(n) \o <<"_", "i", "m", "g", ".", "j", "p", "g">>

\* The first n characters of s.
Take(s, n) == SubSeq(s, 1, Min(Len(s), n))

\* snprintf(ctx->download_fname, MAX_PATH_LEN, "%s/%ld_img.jpg", dir, n): the
\* part of the buffer that follows the len characters of the directory's path
\* (len < MAX_PATH_LEN); snprintf keeps MAX_PATH_LEN - 1 characters in all.
download_fname(len, n) == Take(mirror_name(n), MAX_PATH_LEN - 1 - len)

\* img_download_cnt after a downloader_get_one.
next_download_cnt(has_dir, cnt) == IF has_dir THEN cnt + 1 ELSE cnt

\* The entries stat reports as something other than a directory.
Files(entries) == {e \in entries : e[2] = "file"}

\* clean_cache(path): what the directory holds afterwards.  stuck are the
\* entries unlink fails on.  stat fails on a dangling link, which is then
\* passed over; a directory is reported; anything else is unlinked.
clean_cache_stop_at_error(entries, stuck) ==
    IF stuck = {} THEN {e \in entries : e[2] # "file"} ELSE entries
clean_cache_dirs_too(entries, stuck) ==
    {e \in entries : e[2] = "dangling" \/ e \in stuck}
clean_cache(entries, stuck) ==
    {e \in entries : e[2] # "file" \/ e \in stuck}

\* clean_cache(path): the entries it prints "Found unexpected directory" for.
clean_cache_reported(entries) == {e \in entries : e[2] = "dir"}

\* downloader_init: whether it gets to its clean_cache call.
init_cleans_before_checks(has_url, dir, cleanup) == dir # "unset" /\ cleanup
init_cleans_always(has_url, dir, cleanup) == has_url /\ dir = "present"
init_cleans(has_url, dir, cleanup) == has_url /\ dir = "present" /\ cleanup

\* downloader_free: whether it calls clean_cache.
free_cleans_always(has_dir, cleanup) == has_dir
free_cleans(has_dir, cleanup) == has_dir /\ cleanup

\* write_data, called got times during one transfer: mem_buf_sz afterwards.
\* realloc extends the buffer the context already holds.
write_data(sz, got) == sz + got

\* What malloc, strdup and the curl calls of downloader_init may do.
SetupOutcomes ==
    {"ok", "bad_alloc", "strdup", "global_init", "easy_init", "setopt"}

\* downloader_init: the test that makes it return NULL, "none" if none does.
init_err(has_url, dir, setup) ==
    IF ~has_url THEN "url"
    ELSE IF dir = "missing" THEN "cache_dir"
    ELSE IF setup = "ok" THEN "none"
    ELSE setup

\* downloader_init(www_url, www_cache_dir, clean_cache_after_use).  has_url:
\* www_url is not NULL.  dir: www_cache_dir is NULL ("unset"), names nothing
\* opendir can open ("missing"), or names a directory ("present") whose path
\* has len characters.  pre is what the directory holds on entry, stuck the
\* entries of it unlink fails on.  A failure after malloc goes through
\* downloader_free, which cleans the directory once more.
downloader_init(has_url, dir, cleanup, setup, len, pre, stuck) ==
    /\ dl_ctx = "none"
    /\ cache_entries' =
            IF init_cleans(has_url, dir, cleanup)
            THEN clean_cache(pre, stuck) ELSE pre
    /\ cache_reported' =
            IF init_cleans(has_url, dir, cleanup)
            THEN clean_cache_reported(pre) ELSE {}
    /\ dl_err' = init_err(has_url, dir, setup)
    /\ IF init_err(has_url, dir, setup) # "none"
       THEN /\ dl_ctx' = "failed"
            /\ curl_handle' =
                    IF has_url /\ dir # "missing" /\ setup = "setopt"
                    THEN "cleaned" ELSE "none"
            /\ UNCHANGED <<www_cache_dir, clean_cache_after_use, dir_len>>
       ELSE /\ dl_ctx' = "live"
            /\ curl_handle' = "live"
            /\ www_cache_dir' = (dir = "present")
            /\ clean_cache_after_use' = cleanup
            /\ dir_len' = len
    /\ img_download_cnt' = 0
    /\ mem_buf_sz' = 0
    /\ UNCHANGED <<fnames, dl_calls, dl_requests, dl_mirror, dl_http,
                   dl_decode, dl_ret,
                   dl_decoded>>
    /\ UNCHANGED <<prefetcher, facade>>

DownloaderInit ==
    \E has_url \in BOOLEAN, dir \in {"unset", "missing", "present"},
       cleanup \in BOOLEAN, setup \in SetupOutcomes,
       len \in DirLens \cup {0}, pre \in SUBSET PreExisting :
        \E stuck \in SUBSET Files(pre) :
            /\ (dir = "unset" => pre = {})
            /\ (len = 0) = (dir # "present")
            /\ downloader_init(has_url, dir, cleanup, setup, len, pre, stuck)

\* downloader_get_one.  fopen_ok, fwrite_ok, http_ok and decode_ok are what
\* fopen, fwrite, curl_easy_perform and image_create do if they are reached;
\* got is the number of chunks curl hands to write_data before the transfer
\* ends (all of them when it succeeds).  fopen fails on a name that is the
\* directory itself.
DownloaderGetOne ==
    /\ dl_ctx = "live"
    /\ dl_calls < MaxFetch
    /\ dl_calls' = dl_calls + 1
    /\ img_download_cnt' = next_download_cnt(www_cache_dir, img_download_cnt)
    /\ fnames' =
            IF www_cache_dir
            THEN Append(fnames, download_fname(dir_len, img_download_cnt))
            ELSE fnames
    /\ \E fopen_ok \in BOOLEAN, fwrite_ok \in BOOLEAN, http_ok \in BOOLEAN,
          decode_ok \in BOOLEAN, got \in 0 .. BodyChunks :
          /\ (http_ok => got = BodyChunks)
          /\ (Len(download_fname(dir_len, img_download_cnt)) <= 1 => ~fopen_ok)
          /\ IF www_cache_dir /\ ~fopen_ok
             THEN \* return NULL before curl_easy_perform
                  /\ dl_mirror' = "open_failed"
                  /\ dl_http' = "none"
                  /\ dl_decode' = "none"
                  /\ dl_ret' = "null"
                  /\ dl_decoded' = 0
                  /\ UNCHANGED <<dl_requests, mem_buf_sz, cache_entries>>
             ELSE /\ dl_requests' = dl_requests + 1
                  /\ cache_entries' =
                        IF www_cache_dir
                        THEN cache_entries \cup
                             {<<Tail(download_fname(dir_len, img_download_cnt)),
                                "file">>}
                        ELSE cache_entries
                  /\ dl_mirror' =
                        IF ~www_cache_dir THEN "none"
                        ELSE IF got > 0 /\ ~fwrite_ok THEN "write_failed"
                        ELSE "ok"
                  /\ IF ~http_ok
                     THEN /\ dl_http' = "fail"
                          /\ dl_decode' = "none"
                          /\ mem_buf_sz' = write_data(mem_buf_sz, got)
                          /\ dl_decoded' = 0
                          /\ dl_ret' = "null"
                     ELSE /\ dl_http' = "ok"
                          /\ dl_decode' = IF decode_ok THEN "ok" ELSE "fail"
                          /\ dl_decoded' = write_data(mem_buf_sz, got)
                          /\ mem_buf_sz' = 0
                          /\ dl_ret' = IF decode_ok THEN "img" ELSE "null"
    /\ UNCHANGED <<dl_ctx, www_cache_dir, clean_cache_after_use,
                   cache_reported, dir_len, curl_handle, dl_err>>
    /\ UNCHANGED <<prefetcher, facade>>

\* downloader_free(ctx) on a live downloader; stuck are the entries unlink
\* fails on.
downloader_free(stuck) ==
    /\ dl_ctx = "live"
    /\ dl_ctx' = "freed"
    /\ curl_handle' = "cleaned"
    /\ IF free_cleans(www_cache_dir, clean_cache_after_use)
       THEN /\ cache_entries' = clean_cache(cache_entries, stuck)
            /\ cache_reported' = clean_cache_reported(cache_entries)
       ELSE UNCHANGED <<cache_entries, cache_reported>>
    /\ UNCHANGED <<www_cache_dir, clean_cache_after_use, img_download_cnt,
                   mem_buf_sz, dir_len, fnames, dl_err, dl_calls, dl_requests,
                   dl_mirror, dl_http, dl_decode, dl_ret,
                   dl_decoded>>
    /\ UNCHANGED <<prefetcher, facade>>

DownloaderFree ==
    \E stuck \in SUBSET Files(cache_entries) : downloader_free(stuck)

NextDownloader ==
    \/ DownloaderInit
    \/ DownloaderGetOne
    \/ DownloaderFree

\* The downloader driven on its own by one caller.
DownloaderSpec == Init /\ [][NextDownloader]_vars

----
WorkerStep ==
    \/ ThreadCheck
    \/ ThreadDownload
    \/ ThreadPublish
    \/ ThreadExpire
    \/ ThreadWaitLock
    \/ ThreadCondWait
    \/ ThreadWake
    \/ ThreadCancelled

Next ==
    \/ Start
    \/ WorkerStep
    \/ JumpNextLocked
    \/ JumpNextBroadcast
    \/ JumpPrevLocked
    \/ JumpPrevReturn
    \/ GetCached
    \/ ReaderStop
    \/ FreeCancel
    \/ FreeJoin

Spec == Init /\ [][Next]_vars

\* The worker thread runs whenever it can.
FairSpec == Spec /\ WF_vars(WorkerStep)

\* Start, navigation and free.
NextDestroy ==
    \/ Start
    \/ WorkerStep
    \/ JumpNextLocked
    \/ JumpNextBroadcast
    \/ JumpPrevLocked
    \/ JumpPrevReturn
    \/ FreeCancel
    \/ FreeJoin

\* The worker thread runs whenever it can, and pthread_join returns once the
\* worker has ended.
DestroySpec ==
    Init /\ [][NextDestroy]_vars /\ WF_vars(WorkerStep) /\ WF_vars(FreeJoin)

\* The same program with a downloader that may fail on any call.
NextFail ==
    \/ Next
    \/ ThreadDownloadFail

FailSpec == Init /\ [][NextFail]_vars

----
\* A started prefetcher, a downloader that fails every other call, and a reader
\* that calls jump_next for ever.  So that this runs in finitely many states the
\* reader's calls are not counted, and an image is known by its handle: the
\* downloader gives a new image the handle of a released one, unless the reader
\* still holds that handle, and a fresh handle when there is none.

Reusable ==
    {h \in 1 .. produced : released[h] >= 1 /\ h # last_next /\ h # ret}

\* The downloader callback returns an image; its previous call failed.
FlakyDownload ==
    /\ wpc = "download" /\ ~aborted
    /\ failed
    /\ failed' = FALSE
    /\ IF Reusable # {}
       THEN LET h == CHOOSE x \in Reusable : \A y \in Reusable : x <= y
            IN  /\ w_img' = h
                /\ released' = [released EXCEPT ![h] = 0]
                /\ UNCHANGED produced
       ELSE /\ w_img' = produced + 1
            /\ produced' = produced + 1
            /\ released' = Append(released, 0)
    /\ wpc' = "publish"
    /\ UNCHANGED <<thread, ring, mutex, w_i, w_old, failures, cancel_req,
                   reader, aborted, started, outside, history>>

\* The downloader callback returns NULL; its previous call did not fail.
FlakyDownloadFail ==
    /\ wpc = "download" /\ ~aborted
    /\ ~failed
    /\ failed' = TRUE
    /\ w_img' = NULL
    /\ wpc' = "publish"
    /\ UNCHANGED <<thread, ring, mutex, w_i, w_old, produced, failures,
                   released, cancel_req, reader, aborted, started, outside,
                   history>>

JumpNextLockedAgain == jump_next_locked(FALSE)

JumpNextBroadcastAgain == jump_next_broadcast(FALSE)

\* After a start that succeeded, for each valid cache_size and prefetch_n; the
\* downloader's first call may be a failing or a succeeding one.
LiveInit ==
    /\ AtRest
    /\ thread = 1
    /\ image_cache_size \in 1 .. MaxCacheSize
    /\ prefetch_n \in 1 .. image_cache_size
    /\ image_cache = [i \in 0 .. image_cache_size - 1 |-> NULL]
    /\ wpc = "check"
    /\ failed \in BOOLEAN
    /\ start_ret = "true"
    /\ clamped = FALSE

LiveWorkerStep ==
    \/ ThreadCheck
    \/ FlakyDownload
    \/ FlakyDownloadFail
    \/ ThreadPublish
    \/ ThreadExpire
    \/ ThreadWaitLock
    \/ ThreadCondWait
    \/ ThreadWake

LiveReaderStep ==
    \/ JumpNextLockedAgain
    \/ JumpNextBroadcastAgain

LiveNext ==
    \/ LiveWorkerStep
    \/ LiveReaderStep

\* Both threads are scheduled whenever they can run.
LiveSpec ==
    /\ LiveInit
    /\ [][LiveNext]_vars
    /\ WF_vars(LiveWorkerStep)
    /\ WF_vars(LiveReaderStep)

----
\* The image list (src/src/imagelist.c), which the viewer calls: it carries
\* its own copy of the prefetcher, whose worker is the one above and whose
\* start, jump_next and free differ, and its own downloader, here a step of
\* the worker.  The viewer calls image_list_scan once, then image_list_jump
\* and image_list_current, then image_list_free.

\* The arguments image_list_scan passes to image_prefetcher_start.
ListCacheSize == 10
ListPrefetchN == 3

\* The image image_list_scan loads into ctx.no_img, when it can.
PLACEHOLDER == -1

\* image_list_jump: ctx.current after a jump that returned img.
list_current(img, placeholder, cur) == IF img # NULL THEN img ELSE placeholder

\* The list's image_prefetcher_jump_next: can_move.
list_can_move(cache, r, w, size) ==
    w # r /\ cache[next_idx(r, size)] # NULL

\* image_list_scan.  url and cache are the configuration entries www_url and
\* www_cache (unset, naming nothing opendir can open, or naming a directory),
\* loaded is whether image_from_file gives an image, outcome what malloc and
\* pthread_create do in image_prefetcher_start.  clean_cache(NULL) hands NULL
\* to opendir, which need not return.
image_list_scan(url, cache, loaded, outcome) ==
    /\ Idle /\ scan_ret = "none" /\ thread = 0
    /\ IF ~url \/ cache # "present" \/ outcome # "ok"
       THEN \* abort(), or the crash in opendir
            /\ ((url /\ cache = "present") \/ outcome = "ok")
            /\ IF cache = "unset"
               THEN \/ aborted' = TRUE /\ UNCHANGED rpc
                    \/ rpc' = "segv" /\ UNCHANGED aborted
               ELSE aborted' = TRUE /\ UNCHANGED rpc
            /\ UNCHANGED <<thread, image_cache_size, prefetch_n,
                           image_cache, wpc, dl_ctx, curl_handle,
                           cache_entries, current, no_img, scan_ret>>
       ELSE /\ cache_entries' = clean_cache(cache_entries, {})
            /\ no_img' = IF loaded THEN PLACEHOLDER ELSE NULL
            /\ current' = no_img'
            /\ dl_ctx' = "live"
            /\ curl_handle' = "live"
            /\ image_cache_size' = ListCacheSize
            /\ prefetch_n' = ListPrefetchN
            /\ image_cache' = [i \in 0 .. ListCacheSize - 1 |-> NULL]
            /\ thread' = 1
            /\ wpc' = "check"
            /\ scan_ret' = "true"
            /\ UNCHANGED <<rpc, aborted>>
    /\ UNCHANGED <<image_cache_r, image_cache_w, mutex, w_i, w_img, w_old,
                   produced, failures, failed, released, cancel_req, r_idx,
                   ret, last_count, calls, started, history, www_cache_dir,
                   clean_cache_after_use, img_download_cnt, mem_buf_sz,
                   cache_reported, dir_len, fnames, dl_err, dl_calls,
                   dl_requests, dl_mirror, dl_http, dl_decode, dl_ret,
                   dl_decoded, can_move>>

ImageListScan ==
    \E url \in BOOLEAN, cache \in {"unset", "missing", "present"},
       loaded \in BOOLEAN, outcome \in {"ok", "bad_alloc", "thread_fail"} :
        image_list_scan(url, cache, loaded, outcome)

\* image_list_jump(jump_next_file): the list's image_prefetcher_jump_next, the
\* region under the mutex.
ImageListJumpNextLocked ==
    /\ CanCall
    /\ r_idx' = next_idx(image_cache_r, image_cache_size)
    /\ can_move' = list_can_move(image_cache, image_cache_r, image_cache_w,
                                 image_cache_size)
    /\ image_cache_r' = IF can_move' THEN r_idx' ELSE image_cache_r
    /\ rpc' = "list_next"
    /\ calls' = calls + 1
    /\ UNCHANGED <<thread, image_cache_size, prefetch_n, image_cache,
                   image_cache_w, mutex, worker, cancel_req, ret, last_count,
                   aborted, started, history, downloader, current, no_img,
                   scan_ret>>

\* After the unlock: the broadcast, the read of the returned slot, and
\* image_list_jump's assignment of ctx.current.
ImageListJumpNextReturn ==
    /\ rpc = "list_next" /\ ~aborted
    /\ wpc' = broadcast(wpc)
    /\ ret' = IF can_move THEN image_cache[r_idx] ELSE NULL
    /\ current' = list_current(ret', no_img, current)
    /\ rpc' = "idle"
    /\ UNCHANGED <<thread, ring, mutex, w_i, w_img, w_old, produced, failures,
                   failed, released, cancel_req, r_idx, last_count, calls,
                   aborted, started, history, downloader, no_img, can_move,
                   scan_ret>>

\* image_list_jump(jump_prev_file): image_prefetcher_jump_prev, the region
\* under the mutex; after the early return, the assignment of ctx.current.
ImageListJumpPrevLocked ==
    /\ CanCall
    /\ r_idx' = maybe_prev(image_cache_r, image_cache_size)
    /\ calls' = calls + 1
    /\ IF jump_prev_blocked(image_cache, image_cache_r, image_cache_w,
                            image_cache_size)
       THEN /\ ret' = NULL
            /\ current' = list_current(NULL, no_img, current)
            /\ rpc' = "idle"
            /\ UNCHANGED image_cache_r
       ELSE /\ image_cache_r' = r_idx'
            /\ rpc' = "list_prev"
            /\ UNCHANGED <<ret, current>>
    /\ UNCHANGED <<thread, image_cache_size, prefetch_n, image_cache,
                   image_cache_w, mutex, worker, cancel_req, last_count,
                   aborted, started, history, downloader, no_img, can_move,
                   scan_ret>>

\* After the unlock: the read of the returned slot and the assignment of
\* ctx.current.
ImageListJumpPrevReturn ==
    /\ rpc = "list_prev" /\ ~aborted
    /\ ret' = image_cache[r_idx]
    /\ current' = list_current(ret', no_img, current)
    /\ rpc' = "idle"
    /\ UNCHANGED <<thread, ring, mutex, worker, cancel_req, r_idx, last_count,
                   calls, aborted, started, history, downloader, no_img,
                   can_move, scan_ret>>

\* image_list_free: image_prefetcher_free up to pthread_join.
ImageListFreeCancel ==
    /\ Idle /\ thread = 1
    /\ cancel_req' = TRUE
    /\ rpc' = "list_join"
    /\ UNCHANGED <<thread, ring, mutex, worker, r_idx, ret, last_count, calls,
                   aborted, started, history, outside>>

\* image_list_free: image_prefetcher_free from the return of pthread_join.
ImageListFreeJoin ==
    /\ rpc = "list_join" /\ ~aborted
    /\ joined(wpc)
    /\ released' = free_slots(released, image_cache, image_cache_size)
    /\ image_cache' = NoCache
    /\ thread' = 0
    /\ rpc' = "list_dl_free"
    /\ UNCHANGED <<image_cache_size, prefetch_n, image_cache_r, image_cache_w,
                   mutex, wpc, w_i, w_img, w_old, produced, failures, failed,
                   cancel_req, r_idx, ret, last_count, calls, aborted, started,
                   history, outside>>

\* image_list_free after image_prefetcher_free: downloader_free, clean_cache
\* and image_free(ctx.no_img).
ImageListFreeDownloader ==
    /\ rpc = "list_dl_free" /\ ~aborted
    /\ dl_ctx' = "freed"
    /\ curl_handle' = "cleaned"
    /\ cache_entries' = clean_cache(cache_entries, {})
    /\ rpc' = "freed"
    /\ UNCHANGED <<prefetcher_but_rpc, www_cache_dir, clean_cache_after_use,
                   img_download_cnt, mem_buf_sz, cache_reported, dir_len,
                   fnames, dl_err, dl_calls, dl_requests, dl_mirror, dl_http,
                   dl_decode, dl_ret, dl_decoded, facade>>

NextList ==
    \/ ImageListScan
    \/ WorkerStep
    \/ ImageListJumpNextLocked
    \/ ImageListJumpNextReturn
    \/ ImageListJumpPrevLocked
    \/ ImageListJumpPrevReturn
    \/ ImageListFreeCancel
    \/ ImageListFreeJoin
    \/ ImageListFreeDownloader

\* The image list driven by the viewer.
ListSpec == Init /\ [][NextList]_vars

----
\* Shorthands for the properties.

\* A worker thread was created and the process has not aborted.
Running == thread = 1 /\ ~aborted

\* count_available, (W - R) mod cache_size.
Available == (image_cache_w - image_cache_r) % image_cache_size

\* The foreground thread has not begun image_prefetcher_free.
NotFreeing == rpc \notin {"join", "freed", "segv"}

----
\* C1: no write of the worker (store into slot[W], then W := (W+1) mod
\* cache_size) leaves W = R.  Stated for rings of at least two slots, where W
\* and R can differ at all.
C1_WriteNeverReachesR ==
    [][(ThreadPublish /\ image_cache_size >= 2)
            => image_cache_w' # image_cache_r']_vars

\* C2: once the reader has been given the image in slot R, then as long as R
\* designates that slot (no cursor move, no free) the slot keeps that image and
\* the image is not released.
C2_ExposedNeverEvicted ==
    [][(/\ exposed # NULL
        /\ exposed' = exposed
        /\ NotFreeing'
        /\ image_cache[image_cache_r] = exposed
        /\ released[exposed] = 0)
            => (/\ image_cache'[image_cache_r'] = exposed
                /\ released'[exposed] = 0)]_vars

\* C3: while the reader only calls jump_next, its non-null results follow the
\* downloader's emission order without gaps: the first is image 1 and each
\* later one is the successor of the one before.  (A repeat of the image before,
\* which is what jump_next returns at the head of the ring, is let through
\* here, so that a violation is a skipped image.)
C3_NextResultsContiguous ==
    [][(JumpNextBroadcast /\ phase = "fwd" /\ ret # NULL)
            => (IF last_next = NULL THEN ret = 1
                ELSE ret = last_next \/ ret = last_next + 1)]_vars

C5_JumpPrevTransition ==
    /\ [][JumpPrevLocked =>
            LET prev == (image_cache_r - 1) % image_cache_size IN
            /\ IF prev = image_cache_w \/ image_cache[prev] = NULL
               THEN /\ image_cache_r' = image_cache_r
                    /\ ret' = NULL
                    /\ rpc' = "idle"
               ELSE /\ image_cache_r' = prev
                    /\ image_cache_r' # image_cache_w'
                    /\ image_cache'[image_cache_r'] # NULL
                    /\ rpc' = "prev_ret"
            /\ image_cache_w' = image_cache_w
            /\ image_cache' = image_cache]_vars
    /\ [][JumpPrevReturn =>
            /\ ret' = image_cache[image_cache_r]
            /\ UNCHANGED ring]_vars

\* C5's case: a jump_prev has stepped back and returned the image now at R.
C5_Witness ==
    /\ rpc = "idle"
    /\ back_run >= 1
    /\ ret # NULL
    /\ exposed = ret
    /\ ret = image_cache[image_cache_r]

\* C6: get_cached returns (W - R) mod cache_size of one snapshot, a value in
\* 0 .. cache_size - 1, and changes neither R, W nor any slot.
C6_GetCachedIsModularDistance ==
    [][GetCached =>
        /\ last_count' = (image_cache_w - image_cache_r) % image_cache_size
        /\ last_count' \in 0 .. image_cache_size - 1
        /\ UNCHANGED ring]_vars

\* C6's case: get_cached has returned a positive count and W is behind R in
\* index order (the wrapped branch of the computation).
C6_Witness ==
    /\ Running
    /\ last_count > 0
    /\ image_cache_w < image_cache_r
    /\ last_count = image_cache_w + image_cache_size - image_cache_r

\* C7: after a successful start R and W are indices of the ring.
C7_CursorsInRange ==
    Running => /\ image_cache_r \in 0 .. image_cache_size - 1
               /\ image_cache_w \in 0 .. image_cache_size - 1

\* C7's case: W has wrapped around to 0 while R is on the last slot.
C7_Witness ==
    /\ Running
    /\ image_cache_size >= 2
    /\ produced >= image_cache_size
    /\ image_cache_w = 0
    /\ image_cache_r = image_cache_size - 1

\* C8: after K successful jump_next calls followed by J consecutive successful
\* jump_prev calls, J <= min(K, cache_size - 1).
C8_HistoryBound ==
    (Running /\ phase \in {"fwd", "back"})
        => back_run <= Min(fwd_ok, image_cache_size - 1)

\* C9: no image is released twice, and after the free of a started prefetcher
\* every image the downloader produced has been released exactly once.
C9_ReleasedExactlyOnce ==
    /\ \A id \in 1 .. produced : released[id] <= 1
    /\ (rpc = "freed" /\ thread = 1)
          => \A id \in 1 .. produced : released[id] = 1

\* C9's case: a started prefetcher was freed after the worker had evicted
\* images, with images still in the ring for the free to release.
C9_Witness ==
    /\ rpc = "freed"
    /\ thread = 1
    /\ produced > image_cache_size
    /\ calls >= 1

\* C10: once the reader has stopped calling and the worker has come to rest
\* (blocked in the condition wait, which only the reader can end),
\* count_available equals prefetch_n.  Stated for prefetch_n < cache_size,
\* where the count can reach prefetch_n at all.
C10_PrefetchDepthReached ==
    (Running /\ rpc = "stopped" /\ wpc = "waiting"
        /\ prefetch_n < image_cache_size)
            => Available = prefetch_n

ForwardWindow ==
    {(image_cache_r + k) % image_cache_size : k \in 1 .. Available - 1}

\* C12: a downloader call that returns no image is not put in the ring: the
\* worker's step after it changes neither slot[W] nor W, so that every slot of
\* the forward window R+1 .. W-1 holds an image.
C12_FailureNeverInserted ==
    /\ [][(ThreadPublish /\ w_img = NULL)
            => UNCHANGED <<image_cache, image_cache_w>>]_vars
    /\ [](Running /\ NotFreeing
            => \A s \in ForwardWindow : image_cache[s] # NULL)

\* C13: with a downloader that fails every other call and both threads
\* scheduled fairly, a reader that keeps calling jump_next is given, again and
\* again, an image other than the one it was given before: it is never left for
\* ever with nothing or with the same image.
C13_ReaderLiveness ==
    []<>(rpc = "next_bcast" /\ ret # NULL /\ ret # last_next)

Live == {id \in 1 .. produced : released[id] = 0}

\* C15: a write of the worker into a slot that holds an image takes that image
\* out of the ring (no slot holds it afterwards), the worker's next step
\* releases it, for the first and only time, and at every moment at most
\* cache_size + 1 images are produced and not yet released.
C15_EvictionBoundsMemory ==
    /\ [][(ThreadPublish /\ image_cache[image_cache_w] # NULL)
            => /\ w_old' = image_cache[image_cache_w]
               /\ released[w_old'] = 0
               /\ \A s \in DOMAIN image_cache' : image_cache'[s] # w_old'
               /\ wpc' = "expire"]_vars
    /\ [][(ThreadExpire /\ w_old # NULL) => released'[w_old] = 1]_vars
    /\ [](Cardinality(Live) <= image_cache_size + 1)

\* C15's case: the ring has been filled more than once over, and the worker
\* holds an evicted image it is about to release, with cache_size + 1 images
\* live.
C15_Witness ==
    /\ Running
    /\ wpc = "expire"
    /\ w_old # NULL
    /\ produced > image_cache_size + 1
    /\ Cardinality(Live) = image_cache_size + 1

\* C16: every image a jump_prev returns was returned to the reader by an
\* earlier jump_next.
C16_HistoryOnlySeenImages ==
    [][(JumpPrevReturn /\ ret' # NULL) => ret' \in seen]_vars

\* C17: a start on a prefetcher whose worker was created, or whose R or W is
\* not 0, aborts the process without allocating a ring or creating a thread;
\* no start that goes through happens while a worker exists.
C17_SecondStartAborts ==
    /\ [][(Start /\ (thread = 1 \/ image_cache_r # 0 \/ image_cache_w # 0))
            => (aborted' /\ UNCHANGED <<thread, image_cache, wpc, worker>>)]_vars
    /\ [][(Start /\ wpc # "none") => aborted']_vars

\* C17's case: start was called on a prefetcher whose worker had already moved
\* W, and the process aborted.
C17_Witness ==
    /\ aborted
    /\ thread = 1
    /\ wpc # "none"
    /\ image_cache_w # 0
    /\ image_cache # NoCache

\* C18: image_prefetcher_free on a prefetcher that was never started ends with
\* the structure freed, having cancelled and joined no thread and released no
\* image; up to then no worker thread exists.
C18_FreeNeverStarted ==
    /\ [][(FreeCancel /\ start_ret = "none")
            => (/\ rpc' = "freed"
                /\ ~cancel_req'
                /\ released' = released
                /\ image_cache = NoCache
                /\ wpc' = "none"
                /\ thread' = 0)]_vars
    /\ [](start_ret = "none" => (wpc = "none" /\ thread = 0 /\ produced = 0))

\* C18's case: a prefetcher freed without ever having been started.
C18_Witness ==
    /\ rpc = "freed"
    /\ start_ret = "none"
    /\ ~cancel_req

\* C19: a start that returned false has left no worker, and the start that
\* follows it does not abort; with valid parameters, malloc and pthread_create
\* succeeding, it returns true with a worker running.
C19_FailedStartRetried ==
    /\ [](start_ret = "false" => wpc = "none")
    /\ [][(Start /\ start_ret = "false")
            => /\ ~aborted'
               /\ image_cache' # NoCache
                    => (start_ret' = "true" /\ thread' = 1 /\ wpc' = "check")]_vars

\* C20: when the cache directory is set and the mirror file could not be opened
\* or written, downloader_get_one has still made the HTTP request, and if the
\* transfer and the decoding succeeded it has returned the image.
C20_MirrorFailureStillReturnsImage ==
    dl_mirror \in {"open_failed", "write_failed"}
        => /\ dl_http # "none"
           /\ (dl_http = "ok" /\ dl_decode = "ok") => dl_ret = "img"

\* C21: the request sequence N starts at 0 and goes up by exactly one on every
\* downloader_get_one call, failed ones included: after k calls it is k, the
\* k-th call formed its mirror file's name from N = k - 1 (the directory's
\* path followed by "/<N>_img.jpg"), and no two calls formed the same name.
C21_SequencePerCall ==
    dl_ctx = "live" =>
        /\ img_download_cnt = dl_calls
        /\ www_cache_dir =>
            /\ Len(fnames) = dl_calls
            /\ \A k \in 1 .. Len(fnames) : fnames[k] = mirror_name(k - 1)
            /\ \A i, j \in 1 .. Len(fnames) : i # j => fnames[i] # fnames[j]

\* The inputs of one downloader_init call.
InitInputs ==
    {in \in [has_url : BOOLEAN, dir : {"unset", "missing", "present"},
             cleanup : BOOLEAN, setup : SetupOutcomes,
             len : DirLens \cup {0}, pre : SUBSET PreExisting,
             stuck : SUBSET Files(PreExisting)] :
        /\ in.stuck \subseteq in.pre
        /\ (in.len = 0) = (in.dir # "present")}

\* C22: downloader_init returns NULL, without aborting, when www_url is
\* missing and when www_cache_dir is given and opendir cannot open it; in both
\* cases there is no downloader afterwards, curl_easy_init was not called, and
\* the cache directory holds every entry it held on entry.
C22_InitFailsCleanly ==
    [][(dl_ctx = "none" /\ dl_ctx' # "none") =>
        \A in \in InitInputs :
            (/\ ~in.has_url \/ in.dir = "missing"
             /\ downloader_init(in.has_url, in.dir, in.cleanup, in.setup,
                                in.len, in.pre, in.stuck))
            => /\ dl_ctx' = "failed"
               /\ dl_err' \in {"url", "cache_dir"}
               /\ ~aborted'
               /\ curl_handle' = "none"
               /\ cache_entries' = in.pre]_vars

\* A downloader_init that found no URL, with the cleanup flag's target, a
\* regular file, still in the cache directory.
C22_Witness == dl_err = "url" /\ Files(cache_entries) # {}

\* What a directory holding before must hold after it was emptied, when the
\* entries of the kinds in removable are the ones to remove and unlink fails on
\* those in stuck.
Emptied(before, stuck, removable) ==
    {e \in before : e[2] \notin removable \/ e \in stuck}

\* The cache hygiene policy as a property of one step, for a given reading of
\* which kinds of entry are removed: a downloader_init that returns a downloader, and downloader_free,
\* empty the directory exactly when the cleanup flag and the cache directory
\* are both set, and then report the sub-directories and leave them; otherwise
\* they leave the directory as it is; while the flag is not set no entry ever
\* leaves the directory.
CleanPolicy(removable) ==
    /\ (dl_ctx = "none" /\ dl_ctx' = "live") =>
            \A in \in InitInputs :
                downloader_init(in.has_url, in.dir, in.cleanup, in.setup,
                                in.len, in.pre, in.stuck)
                => IF in.cleanup /\ in.dir = "present"
                   THEN /\ cache_entries' = Emptied(in.pre, in.stuck, removable)
                        /\ cache_reported' = {e \in in.pre : e[2] = "dir"}
                   ELSE cache_entries' = in.pre
    /\ \A stuck \in SUBSET Files(cache_entries) :
            downloader_free(stuck)
            => IF clean_cache_after_use /\ www_cache_dir
               THEN /\ cache_entries' =
                            Emptied(cache_entries, stuck, removable)
                    /\ cache_reported' = {e \in cache_entries : e[2] = "dir"}
               ELSE cache_entries' = cache_entries
    /\ (dl_ctx = "live" /\ ~clean_cache_after_use)
            => cache_entries \subseteq cache_entries'

C24_CurrentTracksRing ==
    [][(\/ ImageListJumpNextReturn
        \/ ImageListJumpPrevReturn
        \/ (ImageListJumpPrevLocked /\ rpc' = "idle"))
            => current' = IF image_cache'[image_cache_r'] # NULL
                          THEN image_cache'[image_cache_r']
                          ELSE no_img']_vars

\* C25: image_list_free destroys the prefetcher, cancelling and joining the
\* worker, before it destroys the downloader: when the downloader is destroyed
\* the worker has ended, and every downloader call is made on a downloader
\* that has not been destroyed.
C25_PrefetcherFreedFirst ==
    /\ [](dl_ctx = "freed" => wpc = "cancelled")
    /\ [][ImageListFreeDownloader => (wpc = "cancelled" /\ thread = 0)]_vars
    /\ [][ThreadDownload => (dl_ctx = "live" /\ dl_ctx' = "live")]_vars

\* The list was freed after its worker had filled the ring and, woken by a
\* jump, downloaded again.
C25_Witness ==
    /\ dl_ctx = "freed" /\ rpc = "freed"
    /\ produced > ListPrefetchN
    /\ wpc = "cancelled"

\* C26: with the www_url configuration entry missing, image_list_scan returns
\* false: the process does not abort, and no worker thread is created.
C26_ScanWithoutUrlReturnsFalse ==
    [][\A cache \in {"unset", "missing", "present"}, loaded \in BOOLEAN,
          outcome \in {"ok", "bad_alloc", "thread_fail"} :
            image_list_scan(FALSE, cache, loaded, outcome)
                => /\ scan_ret' = "false"
                   /\ ~aborted' /\ rpc' = "idle"
                   /\ thread' = 0 /\ wpc' = "none"]_vars

\* C27: the worker reads count_available anew after every download and calls
\* the downloader only if the count just read is below prefetch_n: whenever
\* it goes on to another download after a write, the ring holds fewer than
\* prefetch_n images ahead of R at that moment, reader moves made during the
\* download included.
C27_CountRereadEachDownload ==
    [][((ThreadCheck \/ ThreadExpire) /\ wpc' = "download")
            => get_cached(image_cache_r', image_cache_w', image_cache_size')
                    < prefetch_n']_vars

\* C28: every jump_next call, whether the ring is empty, R is at the head, or
\* R advances, releases the mutex and then, in a step of its own, broadcasts
\* the condition variable, which wakes the worker if it is waiting; jump_prev never signals or
\* broadcasts it, whether it moves R or not: no jump_prev step wakes the
\* worker.
C28_WakeupProtocol ==
    /\ [][JumpNextLocked => (rpc' = "next_bcast" /\ mutex' = "free")]_vars
    /\ [][JumpNextBroadcast
            => /\ wpc = "waiting" => wpc' = "woken"
               /\ wpc # "waiting" => wpc' = wpc]_vars
    /\ [][(JumpPrevLocked \/ JumpPrevReturn) => wpc' = wpc]_vars
    /\ [][(wpc = "waiting" /\ wpc' = "woken") => JumpNextBroadcast]_vars

\* The worker has just been woken by a jump_next that came after a jump_prev.
C28_Witness == wpc = "woken" /\ rpc = "idle" /\ phase = "mixed"

\* C29: the worker never holds cv_mut while the downloader callback runs: it
\* holds the mutex only between its lock before the wait and the wait itself
\* (or its end there, when cancelled), so while a download is in progress the
\* reader's jump_next, jump_prev and get_cached can each take their step.
C29_DownloadOutsideMutex ==
    /\ [](mutex = "worker" => wpc \in {"cond_wait", "cancelled"})
    /\ [](wpc = "download" => mutex = "free")
    /\ []((wpc = "download" /\ Idle /\ thread = 1 /\ calls < MaxCalls)
            => (/\ ENABLED JumpNextLocked
                /\ ENABLED JumpPrevLocked
                /\ ENABLED GetCached))

\* The worker is in a download, and a reader call has moved R since the worker
\* took its count.
C29_Witness ==
    /\ wpc = "download" /\ rpc = "idle" /\ calls >= 1
    /\ w_i < get_cached(image_cache_r, image_cache_w, image_cache_size)

\* C30: the downloader callback is invoked only by the worker thread, one
\* invocation at a time: every step in which the downloader is called is the
\* one worker's step from its download to its publication, and is a step of
\* no foreground operation (jump_next, jump_prev, get_cached, start, free),
\* whose variables it leaves alone; and a start on a prefetcher whose worker
\* exists aborts without creating another worker.
C30_OnlyWorkerDownloads ==
    /\ [][(produced' # produced \/ w_img' # w_img \/ failures' # failures)
            => /\ thread = 1 /\ wpc = "download" /\ wpc' = "publish"
               /\ produced' = produced + 1
               /\ UNCHANGED <<reader, thread, started, aborted, cancel_req,
                              image_cache_r>>]_vars
    /\ [][(Start /\ thread = 1) => (aborted' /\ UNCHANGED wpc)]_vars

\* The worker is at a download, not its first, after the foreground thread
\* has made calls.
C30_Witness == wpc = "download" /\ produced >= 2 /\ calls >= 2 /\ rpc = "idle"

\* C31: the worker's store into slot W and its advance of W are one critical
\* section of cv_mut.  Every step that changes a slot or W of a live ring is
\* the worker's publication, which stores its image into slot W and sets W to
\* (W + 1) mod cache_size at once, with the mutex free before and after; so a
\* reader call sees neither (before the publication the new image is in no
\* slot) or both (after it, the slot behind W holds the new image).
C31_AtomicPublication ==
    /\ [][((image_cache' # image_cache \/ image_cache_w' # image_cache_w)
             /\ wpc \notin {"none", "cancelled"} /\ NotFreeing)
            => /\ wpc = "publish" /\ wpc' = "expire"
               /\ mutex = "free" /\ mutex' = "free"
               /\ image_cache' = [image_cache EXCEPT ![image_cache_w] = w_img]
               /\ image_cache_w' = (image_cache_w + 1) % image_cache_size
               /\ UNCHANGED <<image_cache_r, reader>>]_vars
    /\ []((wpc = "publish" /\ w_img # NULL)
            => \A i \in DOMAIN image_cache : image_cache[i] # w_img)
    /\ [](wpc = "expire"
            => image_cache[(image_cache_w - 1) % image_cache_size] = w_img)

\* A jump_next has just been given the image the worker stored in its last
\* publication, W having wrapped around the ring.
C31_Witness ==
    /\ wpc = "expire" /\ rpc = "next_bcast"
    /\ ret = w_img /\ w_img # NULL
    /\ image_cache_w = 0

\* C32: the worker ends only on a cancellation request, and only at the
\* condition wait: on entering it or while blocked in it.  A request made while
\* the worker is between the start of a downloader call and the release of the
\* evicted image is held back, so when the worker has ended every image the
\* downloader returned is in the ring or has been released, and the mutex is
\* held by the worker nowhere but at the wait.
C32_CancelOnlyAtWait ==
    /\ [][(wpc' = "cancelled" /\ wpc # "cancelled")
            => (cancel_req /\ wpc \in {"cond_wait", "waiting"})]_vars
    /\ [][(cancel_req /\ wpc \in {"download", "publish", "expire"})
            => wpc' \in {"download", "publish", "expire", "wait_lock"}]_vars
    /\ []((wpc = "cancelled" /\ rpc = "join")
            => \A id \in 1 .. produced :
                    IF \E i \in DOMAIN image_cache : image_cache[i] = id
                    THEN released[id] = 0
                    ELSE released[id] = 1)
    /\ [](wpc \in {"download", "publish", "expire"} => mutex = "free")

\* The cancellation request is pending while the worker, past a publication,
\* is about to release the image it evicted.
C32_Witness ==
    /\ cancel_req /\ rpc = "join"
    /\ wpc = "expire" /\ w_old # NULL

\* C33: image_prefetcher_free on a started prefetcher terminates.  Every
\* downloader call returning and the worker being scheduled, from the cancel
\* request on, whatever the worker is doing then, the worker ends, pthread_join
\* returns, and the free releases every slot: every image the downloader
\* returned has then been released.
C33_DestroyTerminates ==
    (rpc = "join")
        ~> (/\ rpc = "freed" /\ wpc = "cancelled"
            /\ image_cache = NoCache
            /\ \A id \in 1 .. produced : released[id] = 1)

\* The free has returned on a prefetcher whose worker the reader had woken for
\* further downloads.
C33_Witness ==
    /\ rpc = "freed" /\ thread = 1 /\ wpc = "cancelled"
    /\ last_next # NULL /\ produced > prefetch_n

\* C34: every downloader_get_one starts from an empty body buffer: the bytes
\* image_create is handed after a successful HTTP response are the body
\* received during that call, BodyChunks chunks, whatever the calls before it
\* received.
C34_FreshBufferPerFetch ==
    dl_http = "ok" => dl_decoded = BodyChunks

\* C35: image_prefetcher_free after a start that returned false (cache_size 0,
\* prefetch_n 0, a failed allocation or a failed pthread_create) completes: it
\* cancels and joins no thread and reads no slot of a ring that was never
\* allocated.
C35_FreeAfterFailedStart ==
    [][(FreeCancel /\ start_ret = "false")
            => (rpc' = "freed" /\ ~cancel_req')]_vars

\* C36: a successful jump_prev returns the image slot prev held when R was set
\* to prev under the mutex: from its unlock to its read of the slot for the
\* return value, no write of the worker changes what slot prev holds.
C36_JumpPrevReturnsLockedOccupant ==
    [][rpc = "prev_ret" => image_cache'[r_idx] = image_cache[r_idx]]_vars

\* C37: jump_next moves R only when it delivers an image, failed downloader
\* calls included: a call that returns NULL leaves R where it was, and a call
\* that changes R leaves it on a slot that holds an image.
C37_NextMovesOnlyOnDelivery ==
    [][JumpNextLocked
            => /\ ret' = NULL => image_cache_r' = image_cache_r
               /\ image_cache_r' # image_cache_r
                    => image_cache[image_cache_r'] # NULL]_vars

\* C38: with a downloader that always succeeds and returns images 1, 2, 3, ...
\* a jump_prev that succeeds while slot R holds image k moves R to a slot that
\* holds image k - 1, the image it returns.
C38_BackwardStepsAdjacent ==
    [][(JumpPrevLocked /\ rpc' = "prev_ret")
            => image_cache[image_cache_r'] = image_cache[image_cache_r] - 1]_vars

C40_MutexFreeAtDestroy ==
    [][FreeJoin => (mutex = "free" /\ wpc # "waiting")]_vars

====
